---- MODULE Spec2Model ----
(***************************************************************************)
(* Credential lifecycle of BaseGitHubApp (server/utils/github/bot.py):     *)
(* the cached app JWT, the cached installation access token derived from   *)
(* it, and the authenticated REST call built on both.                      *)
(*                                                                         *)
(* Time is counted in ticks of 1/TicksPerSec second, so that the float     *)
(* timestamps of datetime.now().timestamp() and the truncation of          *)
(* int(time.time()) are both visible.                                      *)
(***************************************************************************)
EXTENDS Integers, Sequences, FiniteSets, TLC

\* ---------------------------------------------------------------- bounds
\* resolution of the clock: ticks per second
TicksPerSec == 2
\* how many times the clock may move (a pause between calls, or one tick of
\* network latency)
MaxAdvances == 2

\* ------------------------------------------------------------- constants
\* bot.py:75   ... > 60 * 10
JWT_MAX_AGE == 600
\* bot.py:88   "exp": int(time.time()) + 600
JWT_EXP == 600
\* bot.py:110  ... > 60 * 60
INSTALLATION_TOKEN_MAX_AGE == 3600
\* tasks/__init__.py:11 and :17  "schedule": timedelta(minutes=10)
SCHEDULE_MINUTES == 10

\* Python's None, for a credential and for a timestamp
None == [none |-> TRUE]
NoTime == -1

Secs(n) == n * TicksPerSec

\* pauses between two calls, in ticks: the period of the beat schedule, which
\* is the maximum age of the JWT, a second less, and the maximum age of the
\* installation token and a second less (fractions of a second come from the
\* latency of the token exchange)
Steps == {Secs(JWT_MAX_AGE - 1), Secs(60 * SCHEDULE_MINUTES),
          Secs(INSTALLATION_TOKEN_MAX_AGE - 1), Secs(INSTALLATION_TOKEN_MAX_AGE)}
\* duration of the token exchange's round trip, in ticks
Latencies == {0, 1}

InstallationIds == {"12345"}

\* ------------------------------------------------------------ environment
\* state of the private key file when the JWT is minted
KeyStates == {"ok", "missing", "bad_pem"}

\* what the network gives back to one HTTP request; lat is the duration of
\* the round trip, in ticks (the duration of any request but a token exchange
\* that yields a token is left to Tick)
Answers ==
    [kind : {"transport_error"}, status : {0}, body : {"none"}]
    \cup [kind : {"response"}, status : {200},
          body : {"object_with_token", "object", "array"}]
    \cup [kind : {"response"}, status : {500}, body : {"object", "not_json"}]
Outcomes == {[kind |-> a.kind, status |-> a.status, body |-> a.body, lat |-> l] :
                a \in Answers, l \in Latencies}
Exchange == {o \in Outcomes : o.lat = 0 \/ o.body = "object_with_token"}
Target == {o \in Exchange : o.lat = 0 /\ (o.status = 500 <=> o.body = "not_json")
                                     /\ o.body \in {"none", "object", "not_json"}}
Unused == CHOOSE o \in Target : o.kind = "transport_error"

access_tokens_url(installation_id) ==
    [api |-> "app/installations", id |-> installation_id, path |-> "access_tokens"]
installation_url(installation_id) ==
    [api |-> "app/installations", id |-> installation_id, path |-> ""]
other_url == [api |-> "repos", id |-> "", path |-> "issues"]

\* ------------------------------------------------------- values and results
\* int(time.time())
UnixTime(now) == now \div TicksPerSec

\* the compact JWT string: RS256 is deterministic, so with one key the token
\* is a function of its payload
EncodeJWT(payload) == [typ |-> "jwt", iat |-> payload.iat, exp |-> payload.exp,
                       iss |-> payload.iss]

\* f"Bearer {auth}"
Authorization(auth) ==
    [scheme |-> "Bearer",
     credential |-> IF auth = None THEN [text |-> "None"] ELSE auth]

\* the result of running a piece of the client: the object afterwards, the
\* clock afterwards, the value returned, the exception raised ("" for none)
\* and the events it produced, in order
Result(self, now, ret, raised, trace) ==
    [self |-> self, now |-> now, ret |-> ret, raised |-> raised, trace |-> trace]

\* ------------------------------------------------------------- the client
RECURSIVE base_github_rest_api(_, _, _, _, _, _)
RECURSIVE installation_token(_, _, _)

\* BaseGitHubApp.__init__ (the user-token fields are never read or written)
BaseGitHubApp(installation_id) ==
    [app_id |-> "GITHUB_APP_ID",
     installation_id |-> installation_id,
     _jwt_created_at |-> NoTime,
     _jwt |-> None,
     _installation_token_created_at |-> NoTime,
     _installation_token |-> None]

\* jwt_expired with the maximum age written as 60 instead of 60 * 10
jwt_expired_after_a_minute(self, now) ==
    \/ self._jwt = None
    \/ self._jwt_created_at = NoTime
    \/ now - self._jwt_created_at > Secs(JWT_MAX_AGE \div 10)

\* the condition of the if in the jwt property
jwt_expired(self, now) ==
    \/ self._jwt = None
    \/ self._jwt_created_at = NoTime
    \/ now - self._jwt_created_at > Secs(JWT_MAX_AGE)

\* the jwt property dropping the cached installation token whenever it takes
\* the mint path
jwt_dropping_installation_token(self, now, key) ==
    IF jwt_expired(self, now)
    THEN LET stamped == [self EXCEPT !._jwt_created_at = now,
                                     !._installation_token = None]
             payload == [iat |-> UnixTime(now),
                         exp |-> UnixTime(now) + JWT_EXP,
                         iss |-> self.app_id]
             signed == [stamped EXCEPT !._jwt = EncodeJWT(payload)]
             done(minted, ret) == <<[ev |-> "jwt", at |-> now, minted |-> minted,
                                     ok |-> minted, ret |-> ret]>>
         IN  IF key = "ok"
             THEN Result(signed, now, signed._jwt, "", done(TRUE, signed._jwt))
             ELSE Result(stamped, now, None,
                         IF key = "missing" THEN "OSError" ELSE "PEMError",
                         done(FALSE, None))
    ELSE Result(self, now, self._jwt, "",
                <<[ev |-> "jwt", at |-> now, minted |-> FALSE, ok |-> TRUE,
                   ret |-> self._jwt]>>)

\* the jwt property: the creation time is written first, then the key is
\* read and parsed (either may raise), then the token is signed and stored;
\* the clock reads of one evaluation fall on one instant
jwt(self, now, key) ==
    IF jwt_expired(self, now)
    THEN LET stamped == [self EXCEPT !._jwt_created_at = now]
             payload == [iat |-> UnixTime(now),
                         exp |-> UnixTime(now) + JWT_EXP,
                         iss |-> self.app_id]
             signed == [stamped EXCEPT !._jwt = EncodeJWT(payload)]
         IN  CASE key = "missing" ->
                    Result(stamped, now, None, "OSError",
                           <<[ev |-> "jwt", at |-> now, minted |-> FALSE, ok |-> FALSE,
                              ret |-> None]>>)
               [] key = "bad_pem" ->
                    Result(stamped, now, None, "PEMError",
                           <<[ev |-> "jwt", at |-> now, minted |-> FALSE, ok |-> FALSE,
                              ret |-> None]>>)
               [] OTHER ->
                    Result(signed, now, signed._jwt, "",
                           <<[ev |-> "jwt", at |-> now, minted |-> TRUE, ok |-> TRUE,
                              ret |-> signed._jwt]>>)
    ELSE Result(self, now, self._jwt, "",
                <<[ev |-> "jwt", at |-> now, minted |-> FALSE, ok |-> TRUE,
                   ret |-> self._jwt]>>)

\* response.json() of a response that decodes
ResponseJson(net, now, url) ==
    CASE net.body = "object_with_token" ->
            [json |-> "object",
             token |-> [typ |-> "installation_token", issued_at |-> now,
                        installation |-> url.id]]
      [] net.body = "object" -> [json |-> "object", token |-> None]
      [] net.body = "array" -> [json |-> "array", token |-> None]
      [] OTHER -> None

\* the with httpx.Client() block: one request, then response.json(); the
\* status of the response is never looked at
httpx_request(self, now, method, url, auth, net) ==
    LET sent == [ev |-> "http", at |-> now, method |-> method, url |-> url,
                 headers |-> [Accept |-> "application/vnd.github+json",
                              Authorization |-> Authorization(auth),
                              XGitHubApiVersion |-> "2022-11-28"],
                 answer |-> [kind |-> net.kind, status |-> net.status,
                             body |-> net.body]]
    IN  CASE net.kind = "transport_error" ->
                Result(self, now + net.lat, None, "httpx.TransportError", <<sent>>)
          [] net.body = "not_json" ->
                Result(self, now + net.lat, None, "JSONDecodeError", <<sent>>)
          [] OTHER ->
                Result(self, now + net.lat, ResponseJson(net, now, url), "", <<sent>>)

\* base_github_rest_api without the default case of the match: auth stays ""
\* and the request is sent
base_github_rest_api_without_default(self, now, url, method, auth_type, env) ==
    LET auth == CASE auth_type = "jwt" -> jwt(self, now, env.key)
                  [] auth_type = "install_token" -> installation_token(self, now, env)
                  [] OTHER -> Result(self, now, None, "", <<>>)
    IN  IF auth.raised # ""
        THEN auth
        ELSE LET res == httpx_request(auth.self, auth.now, method, url, auth.ret,
                                      env.target)
             IN  Result(res.self, res.now, res.ret, res.raised,
                        auth.trace \o res.trace)

\* base_github_rest_api: env.key is the state of the key file, env.exchange
\* what the network answers to a token exchange, env.target what it answers
\* to the request for url
base_github_rest_api(self, now, url, method, auth_type, env) ==
    LET auth == CASE auth_type = "jwt" -> jwt(self, now, env.key)
                  [] auth_type = "install_token" -> installation_token(self, now, env)
                  [] OTHER -> Result(self, now, None, "ValueError", <<>>)
    IN  IF auth.raised # ""
        THEN auth
        ELSE LET res == httpx_request(auth.self, auth.now, method, url, auth.ret,
                                      env.target)
             IN  Result(res.self, res.now, res.ret, res.raised,
                        auth.trace \o res.trace)

\* installation_token_expired with the maximum age of the JWT, 60 * 10
installation_token_expired_after_ten_minutes(self, now) ==
    \/ self._installation_token = None
    \/ self._installation_token_created_at = NoTime
    \/ now - self._installation_token_created_at > Secs(JWT_MAX_AGE)

\* installation_token_expired without the test of the token itself
installation_token_expired_by_time_only(self, now) ==
    \/ self._installation_token_created_at = NoTime
    \/ now - self._installation_token_created_at > Secs(INSTALLATION_TOKEN_MAX_AGE)

\* the condition of the if in the installation_token property
installation_token_expired(self, now) ==
    \/ self._installation_token = None
    \/ self._installation_token_created_at = NoTime
    \/ now - self._installation_token_created_at > Secs(INSTALLATION_TOKEN_MAX_AGE)

\* res.get("token", None): only a dict has get
HasGet(res) == res # None /\ res.json = "object"

\* the installation_token property: the exchange is a POST with the default
\* auth_type "jwt"; the creation time is written before res.get is evaluated
installation_token(self, now, env) ==
    IF installation_token_expired(self, now)
    THEN LET res == base_github_rest_api(
                        self, now, access_tokens_url(self.installation_id),
                        "POST", "jwt", [env EXCEPT !.target = env.exchange])
             stamped == [res.self EXCEPT
                            !._installation_token_created_at = res.now]
             stored == [stamped EXCEPT !._installation_token = res.ret.token]
             done(ok, ret) == <<[ev |-> "installation_token", at |-> now,
                                 cached |-> FALSE, ok |-> ok, ret |-> ret]>>
         IN  CASE res.raised # "" ->
                    Result(res.self, res.now, None, res.raised,
                           res.trace \o done(FALSE, None))
               [] ~HasGet(res.ret) ->
                    Result(stamped, res.now, None, "AttributeError",
                           res.trace \o done(FALSE, None))
               [] OTHER ->
                    Result(stored, res.now, stored._installation_token, "",
                           res.trace \o done(TRUE, stored._installation_token))
    ELSE Result(self, now, self._installation_token, "",
                <<[ev |-> "installation_token", at |-> now, cached |-> TRUE,
                   ok |-> TRUE, ret |-> self._installation_token]>>)

\* get_installation_info asking for the installation token
get_installation_info_with_install_token(self, now, env) ==
    base_github_rest_api(self, now, installation_url(self.installation_id),
                         "GET", "install_token", env)

\* get_installation_info with the URL of the token exchange
get_installation_info_of_access_tokens(self, now, env) ==
    base_github_rest_api(self, now, access_tokens_url(self.installation_id),
                         "GET", "jwt", env)

\* get_installation_info: auth_type is left at its default, "jwt"
get_installation_info(self, now, env) ==
    base_github_rest_api(self, now, installation_url(self.installation_id),
                         "GET", "jwt", env)

\* ------------------------------------------------------- the state machine
VARIABLES
    self,       \* the BaseGitHubApp object
    now,        \* the wall clock, in ticks
    advances,   \* how many times the clock has moved
    last,       \* the latest call on the object: what it was given, the object
                \* before it, what it returned or raised, the events it produced
    seen,       \* per property, the time of its latest evaluation that returned,
                \* while that is less than the property's maximum age ago
    callers     \* per caller that shares the object, where it stands in the
                \* property it is evaluating and its local variables

vars == <<self, now, advances, last, seen, callers>>

\* the callers that share the object; a caller that is not inside a call
Callers == {"a", "b"}
Resting == [pc |-> "idle", op |-> "", auth |-> None, res |-> None, ret |-> None]

NoArgs == [url |-> other_url, method |-> "", auth_type |-> ""]
NeverSeen == [jwt |-> NoTime, installation_token |-> NoTime]

Idle == [op |-> "", args |-> NoArgs, t0 |-> NoTime, ret |-> None, raised |-> "",
         trace |-> <<>>,
         before |-> [self |-> BaseGitHubApp(""), seen |-> NeverSeen]]

Events(trace, ev) == SelectSeq(trace, LAMBDA e : e.ev = ev)
Last(seq) == seq[Len(seq)]

\* seen after a call that produced trace: when each property last returned
Observe(old, trace) ==
    LET jwts == SelectSeq(Events(trace, "jwt"), LAMBDA e : e.ok)
        toks == SelectSeq(Events(trace, "installation_token"), LAMBDA e : e.ok)
    IN  [jwt |-> IF jwts = <<>> THEN old.jwt ELSE Last(jwts).at,
         installation_token |->
                 IF toks = <<>> THEN old.installation_token ELSE Last(toks).at]

Init ==
    /\ \E id \in InstallationIds : self = BaseGitHubApp(id)
    /\ now = 0
    /\ advances = 0
    /\ last = Idle
    /\ seen = NeverSeen
    /\ callers = [c \in Callers |-> Resting]

\* an evaluation older than the property's maximum age is no longer recent
Recent(at, t, max_age) == IF at # NoTime /\ t - at < Secs(max_age) THEN at ELSE NoTime
Forget(old, t) ==
    [jwt |-> Recent(old.jwt, t, JWT_MAX_AGE),
     installation_token |->
        Recent(old.installation_token, t, INSTALLATION_TOKEN_MAX_AGE)]

\* one call on the object, with result r
Call(op, args, r) ==
    /\ advances + (r.now - now) <= MaxAdvances
    /\ self' = r.self
    /\ now' = r.now
    /\ advances' = advances + (r.now - now)
    /\ last' = [op |-> op, args |-> args, t0 |-> now, ret |-> r.ret,
                raised |-> r.raised, trace |-> r.trace,
                before |-> [self |-> self, seen |-> seen]]
    /\ seen' = Forget(Observe(seen, r.trace), r.now)
    /\ UNCHANGED callers

Env(key, exchange, target) == [key |-> key, exchange |-> exchange, target |-> target]

\* the inputs a call can observe: the key file is read only when the JWT is
\* minted, the exchange is called only when the installation token is minted
Keys(needed) == IF needed THEN KeyStates ELSE {"ok"}
Exchanges(needed) == IF needed THEN Exchange ELSE {Unused}

GetJWT ==
    \E key \in Keys(jwt_expired(self, now)) :
        Call("jwt", NoArgs, jwt(self, now, key))

GetInstallationToken ==
    \E key \in Keys(installation_token_expired(self, now) /\ jwt_expired(self, now)),
       exchange \in Exchanges(installation_token_expired(self, now)) :
        Call("installation_token", NoArgs,
             installation_token(self, now, Env(key, exchange, Unused)))

AuthTypes == {"jwt", "install_token", "user_token", "bogus"}
Methods == {"GET"}

Request ==
    \E method \in Methods, auth_type \in AuthTypes :
      LET mint == auth_type = "install_token" /\ installation_token_expired(self, now)
          sign == (auth_type = "jwt" \/ mint) /\ jwt_expired(self, now)
          args == [url |-> other_url, method |-> method, auth_type |-> auth_type]
      IN  \E key \in Keys(sign), exchange \in Exchanges(mint), target \in Target :
            Call("base_github_rest_api", args,
                 base_github_rest_api(self, now, other_url, method, auth_type,
                                      Env(key, exchange, target)))

GetInstallationInfo ==
    \E key \in Keys(jwt_expired(self, now)), target \in Target :
        Call("get_installation_info", NoArgs,
             get_installation_info(self, now, Env(key, Unused, target)))

\* time passes between two calls
Tick ==
    /\ advances < MaxAdvances
    /\ \E d \in Steps : now' = now + d
    /\ advances' = advances + 1
    /\ last' = Idle
    /\ seen' = Forget(seen, now')
    /\ UNCHANGED <<self, callers>>

Next ==
    \/ GetJWT
    \/ GetInstallationToken
    \/ Request
    \/ GetInstallationInfo
    \/ Tick

Spec == Init /\ [][Next]_vars

\* ------------------------------------ two callers, statement by statement
\* The object is shared by the callers of Callers, each evaluating jwt or
\* installation_token; a step is one statement of one caller. The key file
\* loads and the exchange yields a token, so that what a caller is returned
\* depends on the interleaving alone; the clock moves between calls, the
\* statements of overlapping calls fall on one instant.
Properties == {"jwt", "installation_token"}
Yields == CHOOSE o \in Exchange : o.body = "object_with_token" /\ o.lat = 0

At(c, pc) == callers[c].pc = pc
Goto(c, pc) == callers' = [callers EXCEPT ![c].pc = pc]
Shared == UNCHANGED <<now, advances, last, seen>>

\* a caller starts to evaluate a property
Enter(c) ==
    /\ callers[c].pc \in {"idle", "returned"}
    /\ \E op \in Properties :
          callers' = [callers EXCEPT
                        ![c] = [Resting EXCEPT
                                  !.op = op,
                                  !.pc = IF op = "jwt" THEN "jwt_if"
                                         ELSE "installation_token_if"]]
    /\ UNCHANGED self /\ Shared

\* the if of the jwt property
JwtIf(c) ==
    /\ At(c, "jwt_if")
    /\ Goto(c, IF jwt_expired(self, now) THEN "jwt_created_at" ELSE "jwt_return")
    /\ UNCHANGED self /\ Shared

\* self._jwt_created_at = datetime.now().timestamp()
JwtCreatedAt(c) ==
    /\ At(c, "jwt_created_at")
    /\ self' = [self EXCEPT !._jwt_created_at = now]
    /\ Goto(c, "jwt_key")
    /\ Shared

\* the with block: the key file is read and parsed
JwtKey(c) ==
    /\ At(c, "jwt_key")
    /\ Goto(c, "jwt_encode")
    /\ UNCHANGED self /\ Shared

\* the payload is built and self._jwt is assigned
JwtEncode(c) ==
    /\ At(c, "jwt_encode")
    /\ self' = [self EXCEPT !._jwt = EncodeJWT([iat |-> UnixTime(now),
                                                exp |-> UnixTime(now) + JWT_EXP,
                                                iss |-> self.app_id])]
    /\ Goto(c, "jwt_return")
    /\ Shared

\* return self._jwt, to the caller or to base_github_rest_api as auth
JwtReturn(c) ==
    /\ At(c, "jwt_return")
    /\ callers' = [callers EXCEPT
                     ![c] = IF @.op = "jwt"
                            THEN [@ EXCEPT !.pc = "returned", !.ret = self._jwt]
                            ELSE [@ EXCEPT !.pc = "request", !.auth = self._jwt]]
    /\ UNCHANGED self /\ Shared

\* the if of the installation_token property; the mint path enters
\* base_github_rest_api, which evaluates jwt first
TokenIf(c) ==
    /\ At(c, "installation_token_if")
    /\ Goto(c, IF installation_token_expired(self, now) THEN "jwt_if"
               ELSE "installation_token_return")
    /\ UNCHANGED self /\ Shared

\* the POST to the exchange endpoint and res = response.json()
TokenRequest(c) ==
    /\ At(c, "request")
    /\ callers' = [callers EXCEPT
                     ![c].pc = "installation_token_created_at",
                     ![c].res = httpx_request(
                                    self, now, "POST",
                                    access_tokens_url(self.installation_id),
                                    callers[c].auth, Yields).ret]
    /\ UNCHANGED self /\ Shared

\* self._installation_token_created_at = datetime.now().timestamp()
TokenCreatedAt(c) ==
    /\ At(c, "installation_token_created_at")
    /\ self' = [self EXCEPT !._installation_token_created_at = now]
    /\ Goto(c, "installation_token_get")
    /\ Shared

\* self._installation_token = res.get("token", None)
TokenGet(c) ==
    /\ At(c, "installation_token_get")
    /\ self' = [self EXCEPT !._installation_token = callers[c].res.token]
    /\ Goto(c, "installation_token_return")
    /\ Shared

\* return self._installation_token
TokenReturn(c) ==
    /\ At(c, "installation_token_return")
    /\ callers' = [callers EXCEPT ![c].pc = "returned",
                                  ![c].ret = self._installation_token]
    /\ UNCHANGED self /\ Shared

\* time passes while no caller is inside a call
Pause ==
    /\ \A c \in Callers : callers[c].pc \in {"idle", "returned"}
    /\ advances < MaxAdvances
    /\ \E d \in Steps : now' = now + d
    /\ advances' = advances + 1
    /\ callers' = [c \in Callers |-> Resting]
    /\ UNCHANGED <<self, last, seen>>

NextConcurrent ==
    \/ \E c \in Callers : Enter(c)
    \/ \E c \in Callers : JwtIf(c)
    \/ \E c \in Callers : JwtCreatedAt(c)
    \/ \E c \in Callers : JwtKey(c)
    \/ \E c \in Callers : JwtEncode(c)
    \/ \E c \in Callers : JwtReturn(c)
    \/ \E c \in Callers : TokenIf(c)
    \/ \E c \in Callers : TokenRequest(c)
    \/ \E c \in Callers : TokenCreatedAt(c)
    \/ \E c \in Callers : TokenGet(c)
    \/ \E c \in Callers : TokenReturn(c)
    \/ Pause

SpecConcurrent == Init /\ [][NextConcurrent]_vars


\* ------------------------------------------------------------ properties
\* what the latest call was and what it found
Called(op) == last.op = op
Returned == last.raised = ""
Before == last.before.self
Https(trace) == Events(trace, "http")
Minted(trace) == SelectSeq(Events(trace, "jwt"), LAMBDA e : e.minted)

\* the age of the cached JWT, by its recorded creation time, when the latest
\* call began
JwtCached == Before._jwt # None /\ Before._jwt_created_at # NoTime
JwtAge == last.t0 - Before._jwt_created_at

\* C1 as stated: a jwt evaluation made less than 600 seconds after the
\* previous one returns the token the previous one returned (the cached
\* token: _jwt changes only in an evaluation that returns it) and mints nothing.
C1_SameTokenWithin600sOfPreviousCall ==
    (Called("jwt") /\ Returned /\ last.before.seen.jwt # NoTime)
        => (last.ret = Before._jwt /\ Minted(last.trace) = <<>>)

\* C1 as amended: a jwt evaluation made less than 600 seconds after the
\* recorded creation time of the cached JWT returns the cached token, mints
\* nothing and leaves the object as it was.
C1_SameTokenWithin600sOfCreation ==
    (Called("jwt") /\ JwtCached /\ JwtAge < Secs(JWT_MAX_AGE))
        => (Returned /\ last.ret = Before._jwt /\ Minted(last.trace) = <<>>
            /\ self = Before)

C1_Witness ==
    /\ Called("jwt") /\ JwtCached
    /\ JwtAge = Secs(JWT_MAX_AGE - 1)
    /\ last.ret = Before._jwt

\* C2: a jwt evaluation that returns, made 600 seconds or more after the
\* recorded creation time of the cached JWT, returns a token different from
\* the cached one and records the time of the call as the creation time.
C2_RemintAt600sOrMore ==
    (Called("jwt") /\ Returned /\ JwtCached /\ JwtAge >= Secs(JWT_MAX_AGE))
        => (last.ret # Before._jwt /\ self._jwt_created_at = last.t0)

\* C10: whenever the jwt property returns a token, the time of the call is
\* strictly before the expiry signed into the token.
C10_ReturnedJwtNotExpired ==
    \A i \in 1..Len(last.trace) :
        (last.trace[i].ev = "jwt" /\ last.trace[i].ok)
            => last.trace[i].at < Secs(last.trace[i].ret.exp)

\* the cached installation token, and its age by its recorded creation time,
\* when the latest call began
TokenCached ==
    Before._installation_token # None /\ Before._installation_token_created_at # NoTime
TokenStamped == Before._installation_token_created_at # NoTime
TokenAge == last.t0 - Before._installation_token_created_at
TokenKept ==
    /\ self._installation_token = Before._installation_token
    /\ self._installation_token_created_at = Before._installation_token_created_at

\* the requests of a trace to the exchange endpoint of this installation
Posts(trace) ==
    SelectSeq(Https(trace),
              LAMBDA e : e.method = "POST"
                         /\ e.url = access_tokens_url(Before.installation_id))
Credential(e) == e.headers.Authorization.credential
Kind(credential) == IF "typ" \in DOMAIN credential THEN credential.typ ELSE "None"
JwtReturned(trace) == SelectSeq(Events(trace, "jwt"), LAMBDA e : e.ok)

ExchangeFailed(e) ==
    \/ e.answer.kind = "transport_error"
    \/ e.answer.status \notin 200..299
    \/ e.answer.body = "not_json"
C4_FailedExchangeKeepsCache ==
    (Called("installation_token") /\ TokenCached
        /\ \E i \in 1..Len(Posts(last.trace)) : ExchangeFailed(Posts(last.trace)[i]))
        => (~Returned /\ TokenKept)

\* C5: a call that mints the installation token evaluates jwt and sends
\* exactly one POST to the exchange endpoint of this installation, whose
\* bearer credential is a JWT not past its signed expiry when it is sent.
Remints(trace) ==
    SelectSeq(Events(trace, "installation_token"), LAMBDA e : e.ok /\ ~e.cached)
C5_RemintPostsOnceWithValidJwt ==
    Remints(last.trace) # <<>>
        => /\ Events(last.trace, "jwt") # <<>>
           /\ Len(Posts(last.trace)) = 1
           /\ Kind(Credential(Posts(last.trace)[1])) = "jwt"
           /\ Posts(last.trace)[1].at <= Secs(Credential(Posts(last.trace)[1]).exp)

RECURSIVE Outbound(_)
Outbound(trace) ==
    IF trace = <<>> THEN <<>>
    ELSE LET e == Head(trace)
             step == IF e.ev = "http"
                     THEN << <<e.method, e.url, Kind(Credential(e))>> >>
                     ELSE IF e.ev = "jwt" /\ e.minted THEN << <<"mint">> >>
                     ELSE <<>>
         IN  step \o Outbound(Tail(trace))
Fresh == Before = BaseGitHubApp(Before.installation_id)

\* C7 as stated: on a fresh object a get_installation_info that returns has
\* minted the JWT, posted it to the exchange endpoint and sent the GET of the
\* installation with the installation token.
C7_FreshInfoMintsExchangesGets ==
    (Called("get_installation_info") /\ Fresh /\ Returned)
        => Outbound(last.trace) =
              << <<"mint">>,
                 <<"POST", access_tokens_url(Before.installation_id), "jwt">>,
                 <<"GET", installation_url(Before.installation_id),
                   "installation_token">> >>

\* C7 as amended: on a fresh object get_installation_info tries to mint the
\* JWT; when the key loads it has minted the JWT and then sent one request,
\* the GET of the installation with that JWT as bearer, and when that answers
\* with JSON it returns the body; when the key does not load it raises and
\* sends nothing.
C7_FreshInfoMintsThenGets ==
    (Called("get_installation_info") /\ Fresh)
        => /\ Len(Events(last.trace, "jwt")) = 1
           /\ Minted(last.trace) # <<>>
                => /\ Outbound(last.trace) =
                        << <<"mint">>,
                           <<"GET", installation_url(Before.installation_id), "jwt">> >>
                   /\ Credential(Https(last.trace)[1]) = Minted(last.trace)[1].ret
           /\ Minted(last.trace) = <<>>
                => (~Returned /\ Outbound(last.trace) = <<>>)
           /\ Returned
                => (last.ret # None
                    /\ last.ret.json = Https(last.trace)[1].answer.body)

C7_Witness ==
    Called("get_installation_info") /\ Fresh /\ Returned

NoTokenField(e) == e.answer.kind = "response" /\ e.answer.body = "object"
C11_FailedMintKeepsJwtCache ==
    (Called("jwt") /\ JwtCached)
        => /\ (self._jwt = Before._jwt)
                <=> (self._jwt_created_at = Before._jwt_created_at)
           /\ ~Returned
                => /\ self._jwt = Before._jwt
                   /\ self._jwt_created_at = Before._jwt_created_at
                   /\ jwt_expired(self, now)

\* C14: a jwt evaluation, whether it returns the cached token, mints a new
\* one or raises, sends no request, takes no time on the network, evaluates
\* no installation token and leaves the cached installation token and its
\* creation time as they were; an installation token that was fresh before
\* the evaluation is fresh after it.
C14_JwtLeavesInstallationTokenAlone ==
    Called("jwt")
        => /\ Https(last.trace) = <<>>
           /\ Events(last.trace, "installation_token") = <<>>
           /\ now = last.t0
           /\ TokenKept
           /\ installation_token_expired(self, now)
                <=> installation_token_expired(Before, last.t0)

C14_Witness ==
    /\ Called("jwt") /\ JwtCached
    /\ Minted(last.trace) # <<>>
    /\ TokenCached /\ TokenAge < Secs(INSTALLATION_TOKEN_MAX_AGE)
    /\ ~installation_token_expired(self, now)

\* C15: whenever an installation_token evaluation returns a token, less than
\* 3600 seconds have passed since the exchange endpoint issued that token.
C15_ReturnedTokenIssuedWithin3600s ==
    \A i \in 1..Len(last.trace) :
        (last.trace[i].ev = "installation_token" /\ last.trace[i].ok
            /\ last.trace[i].ret # None)
            => last.trace[i].at - last.trace[i].ret.issued_at
                    < Secs(INSTALLATION_TOKEN_MAX_AGE)

\* C16: base_github_rest_api with auth_type "install_token" never sends the
\* request for the target URL without an installation token as its bearer
\* credential: when the exchange fails or yields no token, the request for
\* the target URL is not sent.
TargetRequests(trace) == SelectSeq(Https(trace), LAMBDA e : e.url = last.args.url)
C16_NoTargetRequestWithoutToken ==
    (Called("base_github_rest_api") /\ last.args.auth_type = "install_token")
        => \A i \in 1..Len(TargetRequests(last.trace)) :
              Kind(Credential(TargetRequests(last.trace)[i])) = "installation_token"

\* C13: an installation_token evaluation posts to the exchange endpoint at
\* most once, and one that takes the mint path and fails (it raises or
\* obtains no token) leaves the installation token stale, so that the next
\* evaluation takes the mint path again.
TokenObtained == Returned /\ last.ret # None
C13_OneAttemptAndFailureStaysStale ==
    Called("installation_token")
        => /\ Len(Posts(last.trace)) <= 1
           /\ (installation_token_expired(Before, last.t0) /\ ~TokenObtained)
                => installation_token_expired(self, now)

\* C12: with two callers evaluating jwt and installation_token on one object,
\* their statements interleaved in any order, a caller is never returned
\* None, nor a JWT minted more than 600 seconds before, nor an installation
\* token issued more than 3600 seconds before.
C12_RaceOnlyRepeatsMints ==
    \A c \in Callers :
        callers[c].pc = "returned"
            => /\ callers[c].ret # None
               /\ callers[c].op = "jwt"
                    => now - Secs(callers[c].ret.iat) <= Secs(JWT_MAX_AGE)
               /\ callers[c].op = "installation_token"
                    => now - callers[c].ret.issued_at
                            <= Secs(INSTALLATION_TOKEN_MAX_AGE)

====
